---------------------------- MODULE Spec2Model ----------------------------
(***************************************************************************)
(* A model of mdl_zip.py: the .mdl container reader (MDL.from_file with    *)
(* read_struct / read_string), the .vmt line scanner (VMT.from_file), the  *)
(* path resolver (split_model_path), the dependency collector              *)
(* (collect_files) and the archive loop (package).                         *)
(*                                                                         *)
(* Text is a sequence of symbols.  A symbol is one character ("/", "\\",   *)
(* " ", ...) or an unbreakable run of ordinary characters ("models",       *)
(* "$basetexture", ...) that contains no separator, blank or quote.        *)
(* Bytes of a container file are numbers 0..255.                           *)
(***************************************************************************)
EXTENDS Integers, Sequences, FiniteSets, TLC

VARIABLES
    ossep,  \* os.sep of the platform the program runs on: "/" or "\\"
    sp,     \* one call of split_model_path
    vmt,    \* one call of VMT.from_file
    mdl,    \* one call of MDL.from_file
    pk      \* one run of package

vars == <<ossep, sp, vmt, mdl, pk>>

\* A component that a specification does not exercise stays in this state.
Idle == [pc |-> "idle"]

Range(s) == {s[i] : i \in 1..Len(s)}

Last(s) == s[Len(s)]

RECURSIVE SeqsUpTo(_, _)
\* every sequence over S of length at most n
SeqsUpTo(S, n) ==
    IF n = 0 THEN {<<>>}
    ELSE LET shorter == SeqsUpTo(S, n - 1)
         IN  shorter \cup {Append(s, x) : s \in {t \in shorter : Len(t) = n - 1}, x \in S}

RECURSIVE Flatten(_)
Flatten(ss) == IF ss = <<>> THEN <<>> ELSE Head(ss) \o Flatten(Tail(ss))

-----------------------------------------------------------------------------
(* str.replace, str.split, str.join, list.index, os.path.join               *)

\* s.replace(a, b) for one-character a and b
Replace(s, a, b) == [i \in 1..Len(s) |-> IF s[i] = a THEN b ELSE s[i]]

\* s.replace(a, "") for a one-character a
Remove(s, a) == SelectSeq(s, LAMBDA c : c # a)

RECURSIVE SplitOn(_, _)
\* s.split(c): n occurrences of c give n + 1 segments, empty ones included
SplitOn(s, c) ==
    IF \E i \in 1..Len(s) : s[i] = c
    THEN LET i == CHOOSE j \in 1..Len(s) : s[j] = c /\ \A h \in 1..(j - 1) : s[h] # c
         IN  <<SubSeq(s, 1, i - 1)>> \o SplitOn(SubSeq(s, i + 1, Len(s)), c)
    ELSE <<s>>

RECURSIVE JoinWith(_, _)
\* c.join(segs)
JoinWith(segs, c) ==
    IF segs = <<>> THEN <<>>
    ELSE IF Len(segs) = 1 THEN segs[1]
    ELSE segs[1] \o <<c>> \o JoinWith(Tail(segs), c)

\* the last position of x in list
IndexLast(list, x) ==
    CHOOSE i \in 1..Len(list) : list[i] = x /\ \A j \in (i + 1)..Len(list) : list[j] # x

\* list.index(x) + 1 for a list that holds x: the first position
Index(list, x) ==
    CHOOSE i \in 1..Len(list) : list[i] = x /\ \A j \in 1..(i - 1) : list[j] # x

\* the characters os.path treats as separators: posixpath "/", ntpath "\\" and "/"
PathSeps == IF ossep = "/" THEN {"/"} ELSE {"/", "\\"}

\* os.path.join(a, b) for paths without a drive: a rooted b replaces a
Join(a, b) ==
    IF b # <<>> /\ b[1] \in PathSeps THEN b
    ELSE IF a = <<>> \/ Last(a) \in PathSeps THEN a \o b
    ELSE a \o <<ossep>> \o b

-----------------------------------------------------------------------------
(* split_model_path                                                         *)

MODELS == <<"models">>

\* the longest path given to split_model_path, in symbols
MaxPathLen == 5

PathSyms == {"/", "\\", "models", "models2", "a"}

split_model_path(path) ==
    LET segs == SplitOn(Replace(path, "\\", "/"), "/")
    IN  IF MODELS \notin Range(segs)
        THEN [status |-> "AssertionError"]
        ELSE LET models_index == Index(segs, MODELS)
             IN  [status     |-> "ok",
                  game_dir   |-> JoinWith(SubSeq(segs, 1, models_index - 1), "/"),
                  model_path |-> JoinWith(SubSeq(segs, models_index, Len(segs)), "/")]

SplitModelPath ==
    /\ sp.pc = "call"
    /\ sp' = [pc |-> "done", path |-> sp.path, ret |-> split_model_path(sp.path)]
    /\ UNCHANGED <<ossep, vmt, mdl, pk>>

InitPath ==
    /\ ossep \in {"/", "\\"}
    /\ sp \in {[pc |-> "call", path |-> p] : p \in SeqsUpTo(PathSyms, MaxPathLen)}
    /\ vmt = Idle /\ mdl = Idle /\ pk = Idle

NextPath == SplitModelPath

SpecPath == InitPath /\ [][NextPath]_vars

\* position i of the separator-normalized text s starts a segment that is exactly "models"
ModelsSegAt(s, i) ==
    /\ i \in 1..Len(s)
    /\ s[i] = "models"
    /\ (i = 1 \/ s[i - 1] = "/")
    /\ (i = Len(s) \/ s[i + 1] = "/")

HasModelsSeg(s) == \E i \in 1..Len(s) : ModelsSegAt(s, i)

\* C8: when the separator-normalized path has a segment exactly equal to
\* "models", split_model_path returns (root_dir, relative_path) where
\* relative_path starts at the first such segment, root_dir has no such
\* segment, and root_dir + "/" + relative_path is the normalized path whenever
\* root_dir is not empty; otherwise (no segment, or only segments that merely
\* contain the word) it fails and returns nothing.
C8_SplitAtFirstModels ==
    sp.pc = "done" =>
        LET norm == Replace(sp.path, "\\", "/")
        IN  IF HasModelsSeg(norm)
            THEN /\ sp.ret.status = "ok"
                 /\ ModelsSegAt(sp.ret.model_path, 1)
                 /\ ~HasModelsSeg(sp.ret.game_dir)
                 /\ "\\" \notin Range(sp.ret.game_dir) \cup Range(sp.ret.model_path)
                 /\ sp.ret.game_dir # <<>> =>
                        sp.ret.game_dir \o <<"/">> \o sp.ret.model_path = norm
                 /\ sp.ret.game_dir = <<>> =>
                        norm \in {sp.ret.model_path, <<"/">> \o sp.ret.model_path}
            ELSE /\ sp.ret.status = "AssertionError"
                 /\ DOMAIN sp.ret = {"status"}

\* a split of a path written with a backslash that holds two "models" segments
C8_Witness ==
    /\ sp.pc = "done"
    /\ sp.ret.status = "ok"
    /\ "\\" \in Range(sp.path)
    /\ sp.ret.game_dir # <<>>
    /\ \E i \in 2..Len(sp.ret.model_path) : ModelsSegAt(sp.ret.model_path, i)


-----------------------------------------------------------------------------
(* VMT.from_file                                                            *)

texture_parameters == {<<"$basetexture">>, <<"$detail">>, <<"$bumpmap">>, <<"%tooltexture">>}

\* what str.strip() removes from both ends
Whitespace == {" ", "\t", "\n"}

RECURSIVE LStrip(_)
LStrip(s) == IF s # <<>> /\ Head(s) \in Whitespace THEN LStrip(Tail(s)) ELSE s

RECURSIVE RStrip(_)
RStrip(s) ==
    IF s # <<>> /\ Last(s) \in Whitespace THEN RStrip(SubSeq(s, 1, Len(s) - 1)) ELSE s

\* line.strip()
Strip(s) == RStrip(LStrip(s))

\* line.partition(sep) for a one-character sep: (before, sep, after), or
\* (line, "", "") when the line does not hold sep
Partition(line, sep) ==
    IF \E i \in 1..Len(line) : line[i] = sep
    THEN LET i == Index(line, sep)
         IN  <<SubSeq(line, 1, i - 1), <<sep>>, SubSeq(line, i + 1, Len(line))>>
    ELSE <<line, <<>>, <<>>>>

\* line.strip().replace('"', "").replace("'", "")
CleanLine(line) == Remove(Remove(Strip(line), "\""), "'")

\* the body of the loop over the lines: the textures list after one more line
VmtLineStep(textures, line) ==
    LET parts     == Partition(CleanLine(line), " ")
        parameter == parts[1]
        value     == parts[3]
    IN  IF parameter \in texture_parameters THEN Append(textures, value) ELSE textures

RECURSIVE VmtTextures(_, _)
\* the textures list of VMT.from_file for a file of these lines
VmtTextures(textures, lines) ==
    IF lines = <<>> THEN textures
    ELSE VmtTextures(VmtLineStep(textures, Head(lines)), Tail(lines))

\* the most lines of a material file
MaxLines == 2

VmtKeys == texture_parameters \cup {<<"$surfaceprop">>, <<"$BaseTexture">>}

\* the lines of the material files: [blank] [quote] key [quote] blanks [value] newline
VmtLineSet ==
    {lead \o q \o key \o q \o gap \o val \o <<"\n">> :
        lead \in {<<>>, <<"\t">>},
        q    \in {<<>>, <<"\"">>, <<"'">>},
        key  \in VmtKeys,
        gap  \in {<<" ">>, <<"\t">>, <<" ", " ">>, <<>>},
        val  \in {<<"w">>, <<"w", "/", "f">>}}

\* one iteration of "for line in vmt_file"
VmtLine ==
    /\ vmt.pc = "lines"
    /\ vmt.n < Len(vmt.file)
    /\ vmt' = [vmt EXCEPT !.n = @ + 1,
                          !.textures = VmtLineStep(@, vmt.file[vmt.n + 1])]
    /\ UNCHANGED <<ossep, sp, mdl, pk>>

\* the end of the file: the loop ends and from_file returns
VmtReturn ==
    /\ vmt.pc = "lines"
    /\ vmt.n = Len(vmt.file)
    /\ vmt' = [vmt EXCEPT !.pc = "done"]
    /\ UNCHANGED <<ossep, sp, mdl, pk>>

InitVMT ==
    /\ ossep \in {"/", "\\"}
    /\ vmt \in {[pc |-> "lines", file |-> f, n |-> 0, textures |-> <<>>] :
                    f \in SeqsUpTo(VmtLineSet, MaxLines)}
    /\ sp = Idle /\ mdl = Idle /\ pk = Idle

NextVMT == VmtLine \/ VmtReturn

SpecVMT == InitVMT /\ [][NextVMT]_vars

\* the blanks that may separate a keyword from its value
Blank == {" ", "\t"}

RECURSIVE SkipBlanks(_)
SkipBlanks(s) == IF s # <<>> /\ Head(s) \in Blank THEN SkipBlanks(Tail(s)) ELSE s

\* (keyword, value) of a cleaned line split on its first run of blanks
SplitOnBlankRun(line) ==
    IF \E i \in 1..Len(line) : line[i] \in Blank
    THEN LET i == CHOOSE j \in 1..Len(line) :
                      line[j] \in Blank /\ \A h \in 1..(j - 1) : line[h] \notin Blank
         IN  <<SubSeq(line, 1, i - 1), SkipBlanks(SubSeq(line, i, Len(line)))>>
    ELSE <<line, <<>>>>

RECURSIVE BlankRunTextures(_)
\* the values of the recognized keywords, in line order, under that split
BlankRunTextures(lines) ==
    IF lines = <<>> THEN <<>>
    ELSE LET kv == SplitOnBlankRun(CleanLine(Head(lines)))
         IN  (IF kv[1] \in texture_parameters THEN <<kv[2]>> ELSE <<>>)
                 \o BlankRunTextures(Tail(lines))

\* C7: VMT.from_file collects, in line order and with repeats, the value of
\* every line whose keyword is one of the four recognized ones, where keyword
\* and value are the two sides of the first run of spaces or tabs of the
\* stripped, quote-free line; so no collected value begins with a blank.
C7_SplitOnWhitespaceRun ==
    vmt.pc = "done" =>
        /\ vmt.textures = BlankRunTextures(vmt.file)
        /\ \A i \in 1..Len(vmt.textures) :
               vmt.textures[i] = <<>> \/ vmt.textures[i][1] \notin Blank


-----------------------------------------------------------------------------
(* the container file, read_struct, read_string and MDL.from_file           *)

Min(a, b) == IF a < b THEN a ELSE b

Max(a, b) == IF a < b THEN b ELSE a

\* b"IDST"
IDST == <<73, 68, 83, 84>>

\* offsetof(studiohdr_t, num_textures), 0xCC
NumTexturesOffset == 204

\* the size of one mstudiotexture_t record: 16 fields of 4 bytes
TextureStride == 64

\* the byte at offset o of a file: the bytes a file does not list are zero
ByteAt(img, o) == IF o \in DOMAIN img.data THEN img.data[o] ELSE 0

\* file.read(n) at position pos: fewer than n bytes at the end of the file
Read(img, pos, n) ==
    [k \in 1..Max(0, Min(n, img.size - pos)) |-> ByteAt(img, pos + k - 1)]

\* struct.unpack of one little-endian "I"
U32(b) == b[1] + 256 * b[2] + 65536 * b[3] + 16777216 * b[4]

\* struct.unpack of count consecutive "I" fields
U32s(b, count) == [k \in 1..count |-> U32(SubSeq(b, 4 * k - 3, 4 * k))]

\* the text of the bytes the containers are written with
Ascii == (47 :> "/") @@ (92 :> "\\") @@ (98 :> "b") @@ (114 :> "r") @@ (120 :> "x") @@ (121 :> "y")

Chr(b) == IF b \in DOMAIN Ascii THEN Ascii[b] ELSE ToString(b)

\* bytes.decode(): a lone byte of 0x80 or more is not valid UTF-8
DecodeOK(bytes) == \A k \in 1..Len(bytes) : bytes[k] < 128

Decode(bytes) == [k \in 1..Len(bytes) |-> Chr(bytes[k])]

MATERIALS == <<"materials">>

VersionOK_Exclusive(version) == 48 <= version /\ version < 52

\* 48 <= version <= 52
VersionOK(version) == 48 <= version /\ version <= 52

DirCountOK_AtMostOne(texture_dir_count) == texture_dir_count <= 1

\* the negation of "texture_dir_count != 1"
DirCountOK(texture_dir_count) == texture_dir_count = 1

NameOffset_Absolute(base_offset, field0) == field0

\* base_offset + texture[0]
NameOffset(base_offset, field0) == base_offset + field0

\* os.path.join("materials", texture_dir, texture_name)
MaterialPath(texture_dir, texture_name) == Join(Join(MATERIALS, texture_dir), texture_name)

\* the reads that fetch table entries (everything after the fixed header)
TableReads == {"dir_offsets", "string", "textures"}

\* how many reads at the end of the file one read_string is counted for
MaxEofReads == 2

MdlFail(e) == mdl' = [mdl EXCEPT !.pc = "error", !.err = e]

\* assert mdl_file.read(4) == b"IDST"
ReadMagic ==
    /\ mdl.pc = "magic"
    /\ LET b == Read(mdl.img, 0, 4)
       IN  IF b = IDST
           THEN mdl' = [mdl EXCEPT !.pc = "version", !.pos = 4,
                                   !.reads = @ \cup {"magic"}]
           ELSE mdl' = [mdl EXCEPT !.pc = "error", !.err = "AssertionError",
                                   !.pos = Len(b), !.reads = @ \cup {"magic"}]
    /\ UNCHANGED <<ossep, sp, vmt, pk>>

\* version = read_struct(mdl_file, "I") and the check of its range
ReadVersion ==
    /\ mdl.pc = "version"
    /\ LET b == Read(mdl.img, mdl.pos, 4)
       IN  IF Len(b) < 4
           THEN mdl' = [mdl EXCEPT !.pc = "error", !.err = "struct.error",
                                   !.pos = @ + Len(b), !.reads = @ \cup {"version"}]
           ELSE IF ~VersionOK(U32(b))
           THEN mdl' = [mdl EXCEPT !.pc = "error", !.err = "NotImplementedError",
                                   !.pos = @ + 4, !.version = U32(b),
                                   !.reads = @ \cup {"version"}]
           ELSE mdl' = [mdl EXCEPT !.pc = "header", !.pos = @ + 4, !.version = U32(b),
                                   !.reads = @ \cup {"version"}]
    /\ UNCHANGED <<ossep, sp, vmt, pk>>

\* seek(0xCC), the two read_struct(mdl_file, "2I") and the check of texture_dir_count
ReadHeader ==
    /\ mdl.pc = "header"
    /\ LET b1 == Read(mdl.img, NumTexturesOffset, 8)
           b2 == Read(mdl.img, NumTexturesOffset + 8, 8)
       IN  IF Len(b1) < 8
           THEN mdl' = [mdl EXCEPT !.pc = "error", !.err = "struct.error",
                                   !.pos = NumTexturesOffset + Len(b1),
                                   !.reads = @ \cup {"header"}]
           ELSE IF Len(b2) < 8
           THEN mdl' = [mdl EXCEPT !.pc = "error", !.err = "struct.error",
                                   !.pos = NumTexturesOffset + 8 + Len(b2),
                                   !.texture_count = U32s(b1, 2)[1],
                                   !.texture_offset = U32s(b1, 2)[2],
                                   !.reads = @ \cup {"header"}]
           ELSE mdl' = [mdl EXCEPT
                    !.pc = IF DirCountOK(U32s(b2, 2)[1]) THEN "dir_offsets" ELSE "error",
                    !.err = IF DirCountOK(U32s(b2, 2)[1]) THEN "none" ELSE "RuntimeError",
                    !.pos = NumTexturesOffset + 16,
                    !.texture_count = U32s(b1, 2)[1],
                    !.texture_offset = U32s(b1, 2)[2],
                    !.texture_dir_count = U32s(b2, 2)[1],
                    !.texture_dir_offset = U32s(b2, 2)[2],
                    !.reads = @ \cup {"header"}]
    /\ UNCHANGED <<ossep, sp, vmt, pk>>

\* seek(texture_dir_offset) and read_struct(mdl_file, "I") texture_dir_count times
ReadDirOffsets ==
    /\ mdl.pc = "dir_offsets"
    /\ LET n == mdl.texture_dir_count
           b == Read(mdl.img, mdl.texture_dir_offset, 4 * n)
       IN  IF Len(b) < 4 * n
           THEN mdl' = [mdl EXCEPT !.pc = "error", !.err = "struct.error",
                                   !.pos = mdl.texture_dir_offset + Len(b),
                                   !.reads = @ \cup {"dir_offsets"}]
           ELSE mdl' = [mdl EXCEPT !.pc = "dirs",
                                   !.pos = mdl.texture_dir_offset + 4 * n,
                                   !.texture_dir_offsets = U32s(b, n),
                                   !.reads = @ \cup {"dir_offsets"}]
    /\ UNCHANGED <<ossep, sp, vmt, pk>>

\* the call read_string(mdl_file, offset) for the next texture directory
DirsCall ==
    /\ mdl.pc = "dirs"
    /\ Len(mdl.texture_dirs) < Len(mdl.texture_dir_offsets)
    /\ mdl' = [mdl EXCEPT !.pc = "dirs_rs",
                          !.pos = mdl.texture_dir_offsets[Len(mdl.texture_dirs) + 1],
                          !.rs = [out |-> <<>>, last_char |-> <<>>],
                          !.eof_reads = 0,
                          !.reads = @ \cup {"string"}]
    /\ UNCHANGED <<ossep, sp, vmt, pk>>

\* seek(texture_offset) and read_struct(mdl_file, "16I") texture_count times
ReadTextures ==
    /\ mdl.pc = "dirs"
    /\ Len(mdl.texture_dirs) = Len(mdl.texture_dir_offsets)
    /\ LET n == mdl.texture_count
           b == Read(mdl.img, mdl.texture_offset, TextureStride * n)
       IN  IF Len(b) < TextureStride * n
           THEN mdl' = [mdl EXCEPT !.pc = "error", !.err = "struct.error",
                                   !.pos = mdl.texture_offset + Len(b),
                                   !.reads = @ \cup {"textures"}]
           ELSE mdl' = [mdl EXCEPT
                    !.pc = "names",
                    !.pos = mdl.texture_offset + TextureStride * n,
                    !.textures = [k \in 1..n |->
                        U32s(SubSeq(b, TextureStride * (k - 1) + 1, TextureStride * k), 16)],
                    !.reads = @ \cup {"textures"}]
    /\ UNCHANGED <<ossep, sp, vmt, pk>>

\* one round of "for i, texture in enumerate(textures)" up to the call of read_string
NamesCall ==
    /\ mdl.pc = "names"
    /\ mdl.i < Len(mdl.textures)
    /\ LET base_offset == mdl.texture_offset + (TextureStride * mdl.i)
       IN  IF mdl.texture_dirs = <<>>
           THEN MdlFail("IndexError")
           ELSE mdl' = [mdl EXCEPT
                    !.pc = "names_rs",
                    !.pos = NameOffset(base_offset, mdl.textures[mdl.i + 1][1]),
                    !.rs = [out |-> <<>>, last_char |-> <<>>],
                    !.eof_reads = 0,
                    !.reads = @ \cup {"string"}]
    /\ UNCHANGED <<ossep, sp, vmt, pk>>

\* one round of the while loop of read_string
ReadStringLoop ==
    /\ mdl.pc \in {"dirs_rs", "names_rs"}
    /\ mdl.rs.last_char # <<0>>
    /\ LET b == Read(mdl.img, mdl.pos, 1)
       IN  mdl' = [mdl EXCEPT
                !.rs = [out |-> mdl.rs.out \o mdl.rs.last_char, last_char |-> b],
                !.pos = @ + Len(b),
                !.eof_reads = IF b = <<>> THEN Min(@ + 1, MaxEofReads) ELSE @]
    /\ UNCHANGED <<ossep, sp, vmt, pk>>

\* the end of read_string (out.decode()) and what the caller does with the text
ReadStringReturn ==
    /\ mdl.pc \in {"dirs_rs", "names_rs"}
    /\ mdl.rs.last_char = <<0>>
    /\ IF ~DecodeOK(mdl.rs.out)
       THEN MdlFail("UnicodeDecodeError")
       ELSE IF mdl.pc = "dirs_rs"
       THEN mdl' = [mdl EXCEPT !.pc = "dirs",
                               !.texture_dirs = Append(@, Decode(mdl.rs.out))]
       ELSE mdl' = [mdl EXCEPT
                !.pc = "names",
                !.i = @ + 1,
                !.materials = Append(@, MaterialPath(mdl.texture_dirs[1],
                                                     Decode(mdl.rs.out)))]
    /\ UNCHANGED <<ossep, sp, vmt, pk>>

\* the loop over the textures is over: return out
MdlReturn ==
    /\ mdl.pc = "names"
    /\ mdl.i = Len(mdl.textures)
    /\ mdl' = [mdl EXCEPT !.pc = "done"]
    /\ UNCHANGED <<ossep, sp, vmt, pk>>


(* the container files MDL.from_file is run on                              *)

\* the most records of the texture table
MaxTextures == 2

\* struct.pack of one little-endian "I"
U32Bytes(v) ==
    <<v % 256, (v \div 256) % 256, (v \div 65536) % 256, (v \div 16777216) % 256>>

\* the file data with bytes written at offset off
Put(data, off, bytes) ==
    [o \in DOMAIN data \cup off..(off + Len(bytes) - 1) |->
        IF off <= o /\ o < off + Len(bytes) THEN bytes[o - off + 1] ELSE data[o]]

RECURSIVE CStrLens(_, _)
\* the bytes the first n null-terminated strings of ss take
CStrLens(ss, n) == IF n = 0 THEN 0 ELSE CStrLens(ss, n - 1) + Len(ss[n]) + 1

\* the layout: header, texture directory table, directory names, texture table, names
DirTableAt == NumTexturesOffset + 16
DirNameAt(dirs, k) == DirTableAt + 4 * Len(dirs) + CStrLens(dirs, k - 1)
TextureTableAt(dirs) == DirNameAt(dirs, Len(dirs) + 1)
NameAt(dirs, names, i) ==
    TextureTableAt(dirs) + TextureStride * Len(names) + CStrLens(names, i - 1)
FullSize(dirs, names) == NameAt(dirs, names, Len(names) + 1)

RECURSIVE PutDirs(_, _, _)
PutDirs(data, dirs, k) ==
    IF k = 0 THEN data
    ELSE Put(Put(PutDirs(data, dirs, k - 1),
                 DirTableAt + 4 * (k - 1), U32Bytes(DirNameAt(dirs, k))),
             DirNameAt(dirs, k), Append(dirs[k], 0))

RECURSIVE PutNames(_, _, _, _)
\* field 0 of record i holds the distance from the record to its name
PutNames(data, dirs, names, i) ==
    IF i = 0 THEN data
    ELSE LET record == TextureTableAt(dirs) + TextureStride * (i - 1)
         IN  Put(Put(PutNames(data, dirs, names, i - 1),
                     record, U32Bytes(NameAt(dirs, names, i) - record)),
                 NameAt(dirs, names, i), Append(names[i], 0))

\* a container of the given size with these header fields, directories and names
Container(magic, version, dirs, names, size) ==
    [size     |-> size,
     data     |-> PutNames(
                      PutDirs(
                          Put(Put(Put(<<>>, 0, magic), 4, U32Bytes(version)),
                              NumTexturesOffset,
                              U32Bytes(Len(names)) \o U32Bytes(TextureTableAt(dirs))
                                  \o U32Bytes(Len(dirs)) \o U32Bytes(DirTableAt)),
                          dirs, Len(dirs)),
                      dirs, names, Len(names)),
     magic    |-> magic,
     version  |-> version,
     dirs     |-> dirs,
     names    |-> names]

\* the versions written into the containers: both ends of the supported range and
\* their neighbours, 0, 48 + 256 and 48 * 2^24 (48 in another byte), and 2^31 - 1
VersionSet == {0, 47, 48, 50, 52, 53, 304, 805306368, 2147483647}

\* "x", "x\\" and ""
DirNameSet == {<<120>>, <<120, 92>>, <<>>}

DirLists == {<<>>} \cup {<<d>> : d \in DirNameSet} \cup {<<d, <<121>>>> : d \in DirNameSet}

\* "b", "br" and a byte that is not text
NameSet == {<<98>>, <<98, 114>>, <<255>>}

\* whole, without its last byte, cut inside the texture table, the header, the version
Sizes(dirs, names) ==
    {n \in {FullSize(dirs, names), FullSize(dirs, names) - 1, TextureTableAt(dirs) + 4,
            NumTexturesOffset + 8, 6} : n <= FullSize(dirs, names)}

MdlStart(img) ==
    [pc |-> "magic", img |-> img, err |-> "none", pos |-> 0, version |-> 0,
     texture_count |-> 0, texture_offset |-> 0,
     texture_dir_count |-> 0, texture_dir_offset |-> 0,
     texture_dir_offsets |-> <<>>, texture_dirs |-> <<>>, textures |-> <<>>,
     i |-> 0, materials |-> <<>>, rs |-> [out |-> <<>>, last_char |-> <<>>],
     eof_reads |-> 0, reads |-> {}]

InitMDL ==
    /\ ossep \in {"/", "\\"}
    /\ \E magic \in {IDST, <<73, 68, 83, 81>>}, version \in VersionSet,
          dirs \in DirLists, names \in SeqsUpTo(NameSet, MaxTextures) :
          \E size \in Sizes(dirs, names) :
              mdl = MdlStart(Container(magic, version, dirs, names, size))
    /\ sp = Idle /\ vmt = Idle /\ pk = Idle

NextMDL ==
    \/ ReadMagic
    \/ ReadVersion
    \/ ReadHeader
    \/ ReadDirOffsets
    \/ DirsCall
    \/ ReadTextures
    \/ NamesCall
    \/ ReadStringLoop
    \/ ReadStringReturn
    \/ MdlReturn

SpecMDL == InitMDL /\ [][NextMDL]_vars

\* the single thread of from_file takes its next step whenever it has one
FairSpecMDL == SpecMDL /\ WF_vars(NextMDL)

MdlEnded == mdl.pc \in {"done", "error"}


\* a container with the right signature, whole, whose strings are text
WellFormed(img) ==
    /\ img.magic = IDST
    /\ img.size = FullSize(img.dirs, img.names)
    /\ \A k \in 1..Len(img.dirs) : DecodeOK(img.dirs[k])
    /\ \A k \in 1..Len(img.names) : DecodeOK(img.names[k])

\* C4: on a well-formed container with one texture directory, from_file
\* succeeds for every version in 48..52 (it never fails and never reads at the
\* end of the file), and for every other version it fails with
\* NotImplementedError, having read nothing but the signature and the version
\* and having produced no material.
C4_VersionRange ==
    (WellFormed(mdl.img) /\ Len(mdl.img.dirs) = 1) =>
        IF mdl.img.version \in 48..52
        THEN /\ mdl.pc # "error"
             /\ mdl.err = "none"
             /\ mdl.eof_reads = 0
        ELSE /\ mdl.pc \in {"magic", "version", "error"}
             /\ mdl.pc = "error" => mdl.err = "NotImplementedError"
             /\ mdl.reads \subseteq {"magic", "version"}
             /\ mdl.materials = <<>>

\* from_file has returned the materials of a version 52 container
C4_Witness ==
    /\ WellFormed(mdl.img) /\ Len(mdl.img.dirs) = 1
    /\ mdl.img.version = 52
    /\ mdl.pc = "done"
    /\ mdl.version = 52
    /\ Len(mdl.materials) = 2

\* C5: on a container with the right signature, a supported version and a
\* complete header whose texture_dir_count is not 1, from_file fails with
\* RuntimeError whatever texture_count is, and it reads no entry of the texture
\* directory table, no string and no record of the texture table.
C5_DirCountNotOne ==
    (/\ mdl.img.magic = IDST
     /\ mdl.img.version \in 48..52
     /\ mdl.img.size >= NumTexturesOffset + 16
     /\ Len(mdl.img.dirs) # 1) =>
        /\ mdl.pc \in {"magic", "version", "header", "error"}
        /\ mdl.pc = "error" => mdl.err = "RuntimeError"
        /\ mdl.reads \cap TableReads = {}
        /\ mdl.materials = <<>>

\* from_file has failed on a container with no texture directory and two textures
C5_Witness ==
    /\ mdl.pc = "error" /\ mdl.err = "RuntimeError"
    /\ mdl.texture_dir_count = 0
    /\ mdl.texture_count = 2
    /\ Len(mdl.img.names) = 2

\* C6: for a well-formed container of a supported version with one texture
\* directory and n texture records, from_file returns n materials, entry i
\* being the join of "materials", the directory name and the name that record
\* i points to with field 0 counted from the start of record i: table order,
\* repeats kept.
C6_MaterialsInTableOrder ==
    (/\ WellFormed(mdl.img)
     /\ Len(mdl.img.dirs) = 1
     /\ mdl.img.version \in 48..52
     /\ mdl.pc = "done") =>
        /\ Len(mdl.materials) = Len(mdl.img.names)
        /\ \A i \in 1..Len(mdl.img.names) :
               mdl.materials[i] =
                   Join(Join(MATERIALS, Decode(mdl.img.dirs[1])), Decode(mdl.img.names[i]))

\* from_file has returned two different materials, the longer name first
C6_Witness ==
    /\ WellFormed(mdl.img)
    /\ mdl.pc = "done"
    /\ mdl.img.names = <<(<<98, 114>>), (<<98>>)>>
    /\ Len(mdl.materials) = 2
    /\ mdl.materials[1] # mdl.materials[2]

\* from_file has returned the same material twice
C6_WitnessRepeat ==
    /\ mdl.pc = "done"
    /\ Len(mdl.materials) = 2
    /\ mdl.materials[1] = mdl.materials[2]

\* C10: read_string stops on every file and every offset, also when no null
\* byte lies between the offset and the end of the file, so from_file ends
\* with a result or an error on every container.
C10_FromFileTerminates == <>MdlEnded

\* read_string has read at the end of the file more than once and goes on
C10_ReadsPastEnd ==
    /\ mdl.pc \in {"dirs_rs", "names_rs"}
    /\ mdl.eof_reads >= 2
    /\ mdl.rs.last_char = <<>>


-----------------------------------------------------------------------------
(* collect_files and package                                                *)

VMT_EXT == <<".vmt">>

VTF_EXT == <<".vtf">>

\* the default mod_name
mod_name == <<"custom_mod">>

\* MDL.from_file(model_path) on this disk: the container the path names
MdlOnDisk(disk, model_path) ==
    IF model_path # <<>> /\ Last(model_path) \in DOMAIN disk.mdl
    THEN disk.mdl[Last(model_path)]
    ELSE [status |-> "error"]

\* open(path) fails for a file that is not there
CanOpen(disk, path) == path \in DOMAIN disk.vmt /\ path \notin disk.missing

FileList_TexturesFirst(model_path, materials, vmts) ==
    <<model_path>>
        \o Flatten([k \in 1..Len(vmts) |->
               [j \in 1..Len(vmts[k]) |-> Join(MATERIALS, vmts[k][j]) \o VTF_EXT]])
        \o [k \in 1..Len(materials) |-> materials[k] \o VMT_EXT]

\* file_list: the model, vmt + ".vmt" for each material, then
\* os.path.join("materials", vtf) + ".vtf" for each texture of each material
FileList(model_path, materials, vmts) ==
    <<model_path>>
        \o [k \in 1..Len(materials) |-> materials[k] \o VMT_EXT]
        \o Flatten([k \in 1..Len(vmts) |->
               [j \in 1..Len(vmts[k]) |-> Join(MATERIALS, vmts[k][j]) \o VTF_EXT]])

\* collect_files(model_path): (game_dir, file_list), or the exception that ends it
collect_files(disk, model_path) ==
    LET m == MdlOnDisk(disk, model_path)
        s == split_model_path(model_path)
    IN  IF m.status # "ok" THEN [status |-> "MDL.from_file failed", opened |-> {}]
        ELSE IF s.status # "ok" THEN [status |-> "AssertionError", opened |-> {}]
        ELSE LET paths == [k \in 1..Len(m.materials) |->
                              Join(s.game_dir, m.materials[k]) \o VMT_EXT]
                 bad   == {k \in 1..Len(paths) : ~CanOpen(disk, paths[k])}
             IN  IF bad # {}
                 THEN LET first == CHOOSE k \in bad : \A h \in bad : k <= h
                      IN  [status |-> "FileNotFoundError",
                           opened |-> {paths[k] : k \in 1..(first - 1)}]
                 ELSE [status    |-> "ok",
                       game_dir  |-> s.game_dir,
                       file_list |-> FileList(s.model_path, m.materials,
                                        [k \in 1..Len(paths) |->
                                            VmtTextures(<<>>, disk.vmt[paths[k]])]),
                       opened    |-> Range(paths)]

ZipPath_NotNormalized(file_path) == Join(mod_name, file_path)

\* zip_path = os.path.join(mod_name, file_path).replace("\\", "/")
ZipPath(file_path) == Replace(Join(mod_name, file_path), "\\", "/")

Remember_Forgotten(zip_contents, zip_path) == zip_contents

\* zip_contents.append(zip_path)
Remember(zip_contents, zip_path) == Append(zip_contents, zip_path)

\* zipfile.ZipFile(f"{mod_name}.zip", "w"): the archive file is created or truncated
PkOpenZip ==
    /\ pk.pc = "start"
    /\ pk' = [pk EXCEPT !.pc = "models", !.archive_created = TRUE]
    /\ UNCHANGED <<ossep, sp, vmt, mdl>>

\* the next item of map(collect_files, model_paths)
PkCollect ==
    /\ pk.pc = "models"
    /\ pk.idx < Len(pk.run)
    /\ LET r == collect_files(pk.disk, pk.run[pk.idx + 1])
       IN  IF r.status # "ok"
           THEN pk' = [pk EXCEPT !.pc = "failed", !.err = r.status,
                                 !.idx = @ + 1, !.opened = r.opened]
           ELSE pk' = [pk EXCEPT !.pc = "copy", !.idx = @ + 1, !.k = 0,
                                 !.game_dir = r.game_dir,
                                 !.copy_list = r.file_list,
                                 !.opened = r.opened,
                                 !.lists = Append(@, [game_dir  |-> r.game_dir,
                                                      file_list |-> r.file_list])]
    /\ UNCHANGED <<ossep, sp, vmt, mdl>>

\* one round of "for file_path in copy_list"
PkCopy ==
    /\ pk.pc = "copy"
    /\ pk.k < Len(pk.copy_list)
    /\ LET file_path == pk.copy_list[pk.k + 1]
           zip_path  == ZipPath(file_path)
           source    == Join(pk.game_dir, file_path)
           arcname   == Join(mod_name, file_path)
       IN  IF zip_path \in Range(pk.zip_contents)
           THEN pk' = [pk EXCEPT !.k = @ + 1,
                                 !.skipped = Append(@, [game_dir |-> pk.game_dir,
                                                        arcname  |-> arcname])]
           ELSE IF source \in pk.disk.missing
           THEN pk' = [pk EXCEPT !.pc = "failed", !.err = "FileNotFoundError"]
           ELSE pk' = [pk EXCEPT !.k = @ + 1,
                                 !.written = Append(@, [game_dir |-> pk.game_dir,
                                                        source   |-> source,
                                                        arcname  |-> arcname]),
                                 !.zip_contents = Remember(@, zip_path)]
    /\ UNCHANGED <<ossep, sp, vmt, mdl>>

\* the copy list of this model is done: back to the loop over the models
PkCopyDone ==
    /\ pk.pc = "copy"
    /\ pk.k = Len(pk.copy_list)
    /\ pk' = [pk EXCEPT !.pc = "models"]
    /\ UNCHANGED <<ossep, sp, vmt, mdl>>

\* no model is left: the archive is closed and "Finished!" is printed
PkFinish ==
    /\ pk.pc = "models"
    /\ pk.idx = Len(pk.run)
    /\ pk' = [pk EXCEPT !.pc = "done"]
    /\ UNCHANGED <<ossep, sp, vmt, mdl>>

(* the runs of package: the model paths given and the files on the disk     *)

\* the most model paths of one run
MaxModels == 2

\* r1/models/a.mdl, the same with backslashes, r2/models/a.mdl, r1/models/b.mdl,
\* r1/models/bad.mdl (not a container) and r1/a.mdl (no "models" segment)
RunPaths ==
    {<<"r1", "/", "models", "/", "a.mdl">>,
     <<"r1", "\\", "models", "\\", "a.mdl">>,
     <<"r2", "/", "models", "/", "a.mdl">>,
     <<"r1", "/", "models", "/", "b.mdl">>,
     <<"r1", "/", "models", "/", "bad.mdl">>,
     <<"r1", "/", "a.mdl">>}

\* the materials of the containers: texture directory "x", textures "m1" and "m2"
M1 == MaterialPath(<<"x">>, <<"m1">>)
M2 == MaterialPath(<<"x">>, <<"m2">>)

\* lines of the material files: "$basetexture" "c/t", $bumpmap c\t, $detail n,
\* $surfaceprop w
LineCT  == <<"\"", "$basetexture", "\"", " ", "\"", "c", "/", "t", "\"", "\n">>
LineCBT == <<"$bumpmap", " ", "c", "\\", "t", "\n">>
LineN   == <<"\t", "$detail", " ", "n", "\n">>
LineW   == <<"$surfaceprop", " ", "w", "\n">>

\* the files that may be absent: a material file and two texture files of r1
MissingChoices ==
    {{}, {Join(<<"r1">>, M2) \o VMT_EXT},
     {Join(<<"r1">>, Join(MATERIALS, <<"c", "/", "t">>) \o VTF_EXT)},
     {Join(<<"r1">>, Join(MATERIALS, <<"n">>) \o VTF_EXT)}}

Disks ==
    {[mdl |-> ("a.mdl" :> [status |-> "ok", materials |-> matsA])
                  @@ ("b.mdl" :> [status |-> "ok", materials |-> <<M2>>])
                  @@ ("bad.mdl" :> [status |-> "error"]),
      vmt |-> [path \in {Join(g, m) \o VMT_EXT : g \in {<<"r1">>, <<"r2">>}, m \in {M1, M2}} |->
                  IF \E g \in {<<"r1">>, <<"r2">>} : path = Join(g, M1) \o VMT_EXT
                  THEN lines1 ELSE lines2],
      missing |-> missing] :
        matsA   \in {<<M1>>, <<M1, M2>>, <<M1, M1>>},
        lines1  \in {<<LineCT>>, <<LineCT, LineCBT>>, <<LineW, LineCT, LineCT>>},
        lines2  \in {<<LineCT>>, <<LineN>>},
        missing \in MissingChoices}

PkStart(run, disk) ==
    [pc |-> "start", run |-> run, disk |-> disk, idx |-> 0, k |-> 0,
     game_dir |-> <<>>, copy_list |-> <<>>, zip_contents |-> <<>>,
     written |-> <<>>, skipped |-> <<>>, archive_created |-> FALSE,
     lists |-> <<>>, opened |-> {}, err |-> "none"]

InitPkg ==
    /\ ossep \in {"/", "\\"}
    /\ pk \in {PkStart(run, disk) : run \in SeqsUpTo(RunPaths, MaxModels), disk \in Disks}
    /\ sp = Idle /\ vmt = Idle /\ mdl = Idle

NextPkg == PkOpenZip \/ PkCollect \/ PkCopy \/ PkCopyDone \/ PkFinish

SpecPkg == InitPkg /\ [][NextPkg]_vars


\* a path with every backslash turned into a slash
Norm(path) == Replace(path, "\\", "/")

\* C1: if any step of a run fails (a container is rejected, a model path has
\* no "models" segment, a .vmt cannot be opened, a listed file cannot be read
\* when it is written), nothing has been put out at that moment: no entry has
\* been written to the archive and the archive file has not been created or
\* truncated.
C1_NoOutputOnFailure ==
    pk.pc = "failed" => (pk.written = <<>> /\ ~pk.archive_created)

\* the stronger half alone: a run that fails has written no entry
C1_NoEntryOnFailure == pk.pc = "failed" => pk.written = <<>>

\* C2: after every step no separator-normalized archive path has been written
\* more than once, and at the end of a successful run every path of every
\* model's file list has been written exactly once.
C2_EachPathOnce ==
    /\ \A i, j \in 1..Len(pk.written) :
           i # j => Norm(pk.written[i].arcname) # Norm(pk.written[j].arcname)
    /\ pk.pc = "done" =>
           \A l \in 1..Len(pk.lists) : \A f \in 1..Len(pk.lists[l].file_list) :
               Cardinality({i \in 1..Len(pk.written) :
                   Norm(pk.written[i].arcname)
                       = Norm(Join(mod_name, pk.lists[l].file_list[f]))}) = 1

\* a finished run of two models in which a path spelled with a backslash was
\* skipped because the same path spelled with a slash had been written
C2_Witness ==
    /\ pk.pc = "done"
    /\ Len(pk.run) = 2
    /\ \E s \in 1..Len(pk.skipped), w \in 1..Len(pk.written) :
           /\ pk.skipped[s].arcname # pk.written[w].arcname
           /\ Norm(pk.skipped[s].arcname) = Norm(pk.written[w].arcname)

\* C3 as stated: deduplication is per root directory, so a file is skipped
\* only when the same relative path of the same root directory was written,
\* never because of a file of another root directory.
C3_DedupPerRoot ==
    \A s \in 1..Len(pk.skipped) :
        \E w \in 1..Len(pk.written) :
            /\ Norm(pk.written[w].arcname) = Norm(pk.skipped[s].arcname)
            /\ pk.written[w].game_dir = pk.skipped[s].game_dir

\* C3 (amended): deduplication is over the whole run whatever the root
\* directory: two files of different root directories are never both written
\* under the same normalized archive path, and every skipped file has the
\* normalized archive path of a file written before it, of whichever root.
C3_DedupAcrossRoots ==
    /\ \A i, j \in 1..Len(pk.written) :
           pk.written[i].game_dir # pk.written[j].game_dir =>
               Norm(pk.written[i].arcname) # Norm(pk.written[j].arcname)
    /\ \A s \in 1..Len(pk.skipped) :
           \E w \in 1..Len(pk.written) :
               Norm(pk.written[w].arcname) = Norm(pk.skipped[s].arcname)

\* a file of r2 was skipped because the file of r1 with the same relative
\* path had been written
C3_Witness ==
    \E s \in 1..Len(pk.skipped), w \in 1..Len(pk.written) :
        /\ pk.skipped[s].game_dir = <<"r2">>
        /\ pk.written[w].game_dir = <<"r1">>
        /\ Norm(pk.written[w].arcname) = Norm(pk.skipped[s].arcname)

\* the materials of the model collect_files has just returned for, and the
\* textures VMT.from_file returns for the k-th of them
CollectedMaterials == MdlOnDisk(pk.disk, pk.run[pk.idx]).materials
CollectedTextures(k) ==
    VmtTextures(<<>>, pk.disk.vmt[Join(pk.game_dir, CollectedMaterials[k]) \o VMT_EXT])

RECURSIVE TexturesBefore(_)
\* how many textures the first k materials have together
TexturesBefore(k) ==
    IF k = 0 THEN 0 ELSE TexturesBefore(k - 1) + Len(CollectedTextures(k))

\* C9: the file list collect_files returns is the relative model path, then
\* <material>.vmt for each material in table order, then
\* materials<sep><texture>.vtf for each texture VMT.from_file returned, by
\* material and then by line; its length is 1 + materials + textures, and
\* every .vmt of it was opened under root_dir.
C9_FileListOrder ==
    (pk.pc = "copy" /\ pk.k = 0) =>
        LET mats == CollectedMaterials
            nm   == Len(mats)
        IN  /\ Len(pk.copy_list) = 1 + nm + TexturesBefore(nm)
            /\ pk.copy_list[1] = split_model_path(pk.run[pk.idx]).model_path
            /\ \A k \in 1..nm :
                   /\ pk.copy_list[1 + k] = mats[k] \o <<".vmt">>
                   /\ (pk.game_dir \o <<ossep>> \o mats[k] \o <<".vmt">>) \in pk.opened
                   /\ \A j \in 1..Len(CollectedTextures(k)) :
                          pk.copy_list[1 + nm + TexturesBefore(k - 1) + j]
                              = <<"materials", ossep>> \o CollectedTextures(k)[j]
                                    \o <<".vtf">>

\* collect_files has returned the list of a model with two different materials,
\* the first of which has two textures
C9_Witness ==
    /\ pk.pc = "copy" /\ pk.k = 0
    /\ Len(CollectedMaterials) = 2
    /\ CollectedMaterials[1] # CollectedMaterials[2]
    /\ Len(CollectedTextures(1)) = 2
    /\ Len(pk.copy_list) >= 6

=============================================================================
